---------------------------- MODULE Spec2Model ----------------------------
(* A model of webp-validator (src/src/lib.rs): validate_webp, the C ABI    *)
(* adapter validate_webp_ffi and free_error_message, called from a number  *)
(* of threads.  Text is modelled as sequences of bytes, so that the        *)
(* conversions at the boundary (CStr::from_ptr, to_str, CString::new, the  *)
(* {:?} rendering of the decoder's error) are computed, not assumed.       *)
EXTENDS Integers, Sequences, FiniteSets, TLC

(* ------------------------------ bounds --------------------------------- *)

\* longest path text (in bytes, without the terminating NUL) a caller passes
MaxPathLen == 2
\* number of caller threads
NumThreads == 2
\* largest width and height the decoder reports
MaxDim == 2
\* largest frame count the decoder reports
MaxFrames == 2

(* ----------------------------- constants ------------------------------- *)

\* the null pointer (std::ptr::null_mut())
NULL == 0

Threads == 1..NumThreads
\* addresses the allocator hands out; a thread holds at most one message
Addr == 1..NumThreads

\* bytes of caller-supplied path text: NUL, "a", and the two bytes of U+00E9
PathBytes == {0, 97, 195, 169}

\* "path is null"
PathIsNullText ==
    <<112, 97, 116, 104, 32, 105, 115, 32, 110, 117, 108, 108>>
\* "invalid utf-8 in path"
InvalidUtf8Text ==
    <<105, 110, 118, 97, 108, 105, 100, 32, 117, 116, 102, 45, 56, 32,
      105, 110, 32, 112, 97, 116, 104>>
\* "failed to open file: "
OpenPrefix ==
    <<102, 97, 105, 108, 101, 100, 32, 116, 111, 32, 111, 112, 101,
      110, 32, 102, 105, 108, 101, 58, 32>>
\* "webp format validation failed: "
FormatPrefix ==
    <<119, 101, 98, 112, 32, 102, 111, 114, 109, 97, 116, 32, 118, 97,
      108, 105, 100, 97, 116, 105, 111, 110, 32, 102, 97, 105, 108,
      101, 100, 58, 32>>
\* "No such file or directory (os error 2)"
NotFoundText ==
    <<78, 111, 32, 115, 117, 99, 104, 32, 102, 105, 108, 101, 32, 111,
      114, 32, 100, 105, 114, 101, 99, 116, 111, 114, 121, 32, 40,
      111, 115, 32, 101, 114, 114, 111, 114, 32, 50, 41>>
\* "Permission denied (os error 13)"
DeniedText ==
    <<80, 101, 114, 109, 105, 115, 115, 105, 111, 110, 32, 100, 101,
      110, 105, 101, 100, 32, 40, 111, 115, 32, 101, 114, 114, 111,
      114, 32, 49, 51, 41>>
\* "file name contained an unexpected NUL byte"
NulInPathText ==
    <<102, 105, 108, 101, 32, 110, 97, 109, 101, 32, 99, 111, 110,
      116, 97, 105, 110, 101, 100, 32, 97, 110, 32, 117, 110, 101,
      120, 112, 101, 99, 116, 101, 100, 32, 78, 85, 76, 32, 98, 121,
      116, 101>>
\* "RiffSignatureInvalid"
RiffSignatureInvalidName ==
    <<82, 105, 102, 102, 83, 105, 103, 110, 97, 116, 117, 114, 101,
      73, 110, 118, 97, 108, 105, 100>>
\* "ChunkHeaderInvalid"
ChunkHeaderInvalidName ==
    <<67, 104, 117, 110, 107, 72, 101, 97, 100, 101, 114, 73, 110,
      118, 97, 108, 105, 100>>
\* "ImageTooLarge"
ImageTooLargeName ==
    <<73, 109, 97, 103, 101, 84, 111, 111, 76, 97, 114, 103, 101>>
\* "invalid data"
InvalidDataText ==
    <<105, 110, 118, 97, 108, 105, 100, 32, 100, 97, 116, 97>>

(* ------------------------------ sequences ------------------------------ *)

Range(s) == {s[i] : i \in 1..Len(s)}

SeqsUpTo(S, n) == UNION {[1..k -> S] : k \in 0..n}

IsPrefix(p, s) == Len(p) <= Len(s) /\ SubSeq(s, 1, Len(p)) = p

Contains(s, sub) ==
    \E i \in 0..(Len(s) - Len(sub)) : SubSeq(s, i + 1, i + Len(sub)) = sub

(* --------------------------- text conversions -------------------------- *)

\* CStr::from_ptr: the bytes of the buffer before its first NUL
CStrFromPtr(buf) ==
    IF 0 \in Range(buf)
    THEN LET n == CHOOSE i \in 1..Len(buf) :
                      buf[i] = 0 /\ \A j \in 1..(i - 1) : buf[j] # 0
         IN  SubSeq(buf, 1, n - 1)
    ELSE buf

IsCont(b) == b >= 128 /\ b <= 191

\* the number of bytes of the well-formed UTF-8 scalar at the head of s, or 0
Utf8Head(s) ==
    LET b == s[1] IN
    IF b < 128 THEN 1
    ELSE IF b >= 194 /\ b <= 223
         THEN IF Len(s) >= 2 /\ IsCont(s[2]) THEN 2 ELSE 0
    ELSE IF b >= 224 /\ b <= 239
         THEN IF Len(s) >= 3 /\ IsCont(s[2]) /\ IsCont(s[3])
                 /\ (b = 224 => s[2] >= 160) /\ (b = 237 => s[2] <= 159)
              THEN 3 ELSE 0
    ELSE IF b >= 240 /\ b <= 244
         THEN IF Len(s) >= 4 /\ IsCont(s[2]) /\ IsCont(s[3]) /\ IsCont(s[4])
                 /\ (b = 240 => s[2] >= 144) /\ (b = 244 => s[2] <= 143)
              THEN 4 ELSE 0
    ELSE 0

RECURSIVE IsUtf8(_)
IsUtf8(s) ==
    IF s = <<>> THEN TRUE
    ELSE LET n == Utf8Head(s) IN
         n > 0 /\ IsUtf8(SubSeq(s, n + 1, Len(s)))

\* a faulty variant of ToStr: the bytes taken as text without validation
ToStrUnchecked(bytes) == [ok |-> TRUE, s |-> bytes]

\* CStr::to_str: Ok(text) when the bytes are valid UTF-8, Err otherwise
ToStr(bytes) == [ok |-> IsUtf8(bytes), s |-> bytes]

\* CString::new: Err(NulError) on an interior NUL, else the bytes plus a NUL
CStringNew(bytes) ==
    IF 0 \in Range(bytes) THEN [ok |-> FALSE, buf |-> <<>>]
    ELSE [ok |-> TRUE, buf |-> bytes \o <<0>>]

\* the decimal digits of a u8, as {:?} prints it
DebugU8(b) ==
    LET d(k) == <<48 + k>> IN
    IF b >= 100 THEN d(b \div 100) \o d((b \div 10) % 10) \o d(b % 10)
    ELSE IF b >= 10 THEN d(b \div 10) \o d(b % 10)
    ELSE d(b)

\* {:?} of a byte array: "[82, 73, 70, 70]"
RECURSIVE DebugItems(_)
DebugItems(a) ==
    IF a = <<>> THEN <<>>
    ELSE IF Len(a) = 1 THEN DebugU8(a[1])
    ELSE DebugU8(a[1]) \o <<44, 32>> \o DebugItems(Tail(a))

DebugArray(a) == <<91>> \o DebugItems(a) \o <<93>>


(* ------------------------- decoder and files --------------------------- *)

NoErr == [tag |-> "none", payload |-> <<>>]

\* image_webp's DecodingError values a probe can return: a tag and its payload
DecodingErrors ==
    {[tag |-> g, payload |-> p] :
        g \in {"RiffSignatureInvalid", "ChunkHeaderInvalid"},
        p \in {<<0, 0, 0, 0>>, <<82, 73, 70, 70>>}}
    \cup {[tag |-> "ImageTooLarge", payload |-> <<>>]}

TagName(g) ==
    CASE g = "RiffSignatureInvalid" -> RiffSignatureInvalidName
      [] g = "ChunkHeaderInvalid" -> ChunkHeaderInvalidName
      [] g = "ImageTooLarge" -> ImageTooLargeName

\* a faulty variant of DebugFmt: the payload bytes written as they are
DebugFmtRaw(e) ==
    IF e.payload = <<>> THEN TagName(e.tag)
    ELSE TagName(e.tag) \o <<40>> \o e.payload \o <<41>>

\* a faulty variant of DebugFmt: a description that does not name the tag
DebugFmtOpaque(e) == InvalidDataText

\* {:?} of a DecodingError: the tag's name, then its payload in parentheses
DebugFmt(e) ==
    IF e.payload = <<>> THEN TagName(e.tag)
    ELSE TagName(e.tag) \o <<40>> \o DebugArray(e.payload) \o <<41>>

NoDecoder ==
    [dimensions |-> <<0, 0>>, has_alpha |-> FALSE, is_animated |-> FALSE,
     num_frames |-> 0]

\* what a decoder handle reports after a successful probe
Decoders ==
    [dimensions : (1..MaxDim) \X (1..MaxDim), has_alpha : BOOLEAN,
     is_animated : BOOLEAN, num_frames : 0..MaxFrames]

\* what a directory entry can hold: an unreadable file, bytes the probe
\* rejects with an error, or bytes the probe accepts
FileContents ==
    {[kind |-> "denied", err |-> NoErr, decoder |-> NoDecoder]}
    \cup {[kind |-> "bad", err |-> e, decoder |-> NoDecoder] :
              e \in DecodingErrors}
    \cup {[kind |-> "webp", err |-> NoErr, decoder |-> d] : d \in Decoders}

NoContent == [kind |-> "none", err |-> NoErr, decoder |-> NoDecoder]

\* File::open: the io::Error's description, or the opened file
FileOpen(path, fsys) ==
    IF 0 \in Range(path)
    THEN [ok |-> FALSE, desc |-> NulInPathText, content |-> NoContent]
    ELSE IF path \notin DOMAIN fsys
    THEN [ok |-> FALSE, desc |-> NotFoundText, content |-> NoContent]
    ELSE IF fsys[path].kind = "denied"
    THEN [ok |-> FALSE, desc |-> DeniedText, content |-> NoContent]
    ELSE [ok |-> TRUE, desc |-> <<>>, content |-> fsys[path]]

NoFile == [ok |-> FALSE, desc |-> <<>>, content |-> NoContent]

\* WebPDecoder::new(reader): the probe of the file's bytes
WebPDecoderNew(content) ==
    IF content.kind = "webp"
    THEN [ok |-> TRUE, decoder |-> content.decoder, err |-> NoErr]
    ELSE [ok |-> FALSE, decoder |-> NoDecoder, err |-> content.err]

NoProbe == [ok |-> FALSE, decoder |-> NoDecoder, err |-> NoErr]

(* ------------------------------ validator ------------------------------ *)

NoInfo ==
    [width |-> 0, height |-> 0, has_alpha |-> FALSE, is_animated |-> FALSE,
     num_frames |-> 0]

\* a faulty variant of new_valid: the two dimensions exchanged
new_valid_swapped(decoder) ==
    [width |-> decoder.dimensions[2],
     height |-> decoder.dimensions[1],
     has_alpha |-> decoder.has_alpha,
     is_animated |-> decoder.is_animated,
     num_frames |-> decoder.num_frames]

\* WebpInfo::new_valid
new_valid(decoder) ==
    [width |-> decoder.dimensions[1],
     height |-> decoder.dimensions[2],
     has_alpha |-> decoder.has_alpha,
     is_animated |-> decoder.is_animated,
     num_frames |-> decoder.num_frames]

Ok(info) == [ok |-> TRUE, info |-> info, msg |-> <<>>]
Err(msg) == [ok |-> FALSE, info |-> NoInfo, msg |-> msg]
NoResult == [ok |-> FALSE, info |-> NoInfo, msg |-> <<>>]

\* a faulty variant of OpenErrMsg: the io error reported as a format failure
OpenErrMsgAsFormat(desc) == FormatPrefix \o desc

\* format!("failed to open file: {}", e)
OpenErrMsg(desc) == OpenPrefix \o desc

\* format!("webp format validation failed: {:?}", e)
FormatErrMsg(e) == FormatPrefix \o DebugFmt(e)

\* validate_webp, run from start to end
validate_webp(path, fsys) ==
    LET file == FileOpen(path, fsys) IN
    IF ~file.ok THEN Err(OpenErrMsg(file.desc))
    ELSE LET probe == WebPDecoderNew(file.content) IN
         IF probe.ok THEN Ok(new_valid(probe.decoder))
         ELSE Err(FormatErrMsg(probe.err))

(* ----------------------------- FFI adapter ----------------------------- *)

\* the record of the null-path return
NullPathRecord(p) ==
    [is_valid |-> FALSE, width |-> 0, height |-> 0, has_alpha |-> FALSE,
     is_animated |-> FALSE, num_frames |-> 0, error_message |-> p]

\* the record of the invalid-UTF-8 return
InvalidUtf8Record(p) ==
    [is_valid |-> FALSE, width |-> 0, height |-> 0, has_alpha |-> FALSE,
     is_animated |-> FALSE, num_frames |-> 0, error_message |-> p]

\* a faulty variant of OkRecord: the frame count left at its default
OkRecordNoFrames(info) ==
    [is_valid |-> TRUE, width |-> info.width, height |-> info.height,
     has_alpha |-> info.has_alpha, is_animated |-> info.is_animated,
     num_frames |-> 0, error_message |-> NULL]

\* the record of the Ok(info) arm
OkRecord(info) ==
    [is_valid |-> TRUE, width |-> info.width, height |-> info.height,
     has_alpha |-> info.has_alpha, is_animated |-> info.is_animated,
     num_frames |-> info.num_frames, error_message |-> NULL]

\* a faulty variant of ErrRecord: the message pointer left null
ErrRecordNoMessage(p) ==
    [is_valid |-> FALSE, width |-> 0, height |-> 0, has_alpha |-> FALSE,
     is_animated |-> FALSE, num_frames |-> 0, error_message |-> NULL]

\* the record of the Err(err) arm
ErrRecord(p) ==
    [is_valid |-> FALSE, width |-> 0, height |-> 0, has_alpha |-> FALSE,
     is_animated |-> FALSE, num_frames |-> 0, error_message |-> p]

NoRecord ==
    [is_valid |-> FALSE, width |-> 0, height |-> 0, has_alpha |-> FALSE,
     is_animated |-> FALSE, num_frames |-> 0, error_message |-> NULL]

\* a faulty variant of FreshAddrs: one static buffer reused for every message
FreshAddrsStatic(h) == {1}

\* the addresses the allocator may return: those holding no live allocation
FreshAddrs(h) == {a \in Addr : h[a] = <<>>}

\* a faulty variant of free_error_message: the allocation is never reclaimed
free_error_message_leak(h, p) == [heap |-> h, ub |-> FALSE]

\* free_error_message: null is a no-op; CString::from_raw of a live pointer
\* reclaims it; of any other pointer it is undefined behaviour
free_error_message(h, p) ==
    IF p = NULL THEN [heap |-> h, ub |-> FALSE]
    ELSE IF h[p] = <<>> THEN [heap |-> h, ub |-> TRUE]
    ELSE [heap |-> [h EXCEPT ![p] = <<>>], ub |-> FALSE]

\* a caller's path argument: the null pointer, or a pointer to a buffer
NullArg == [null |-> TRUE, buf |-> <<>>]
BufArg(b) == [null |-> FALSE, buf |-> b]

\* a faulty variant of is_null: the check left out
is_null_unchecked(a) == FALSE

\* path.is_null()
is_null(a) == a.null

\* validate_webp_ffi run from start to end, up to the address of the message:
\* whether it panics, the record's fields and the text of its message
validate_webp_ffi(a, fsys) ==
    LET out(rec, text) ==
            [panic |-> ~CStringNew(text).ok, rec |-> rec, text |-> text]
    IN
    IF is_null(a) THEN out(NullPathRecord(NULL), PathIsNullText)
    ELSE LET path_str == ToStr(CStrFromPtr(a.buf)) IN
         IF ~path_str.ok THEN out(InvalidUtf8Record(NULL), InvalidUtf8Text)
         ELSE LET r == validate_webp(path_str.s, fsys) IN
              IF r.ok THEN [panic |-> FALSE, rec |-> OkRecord(r.info),
                            text |-> <<>>]
              ELSE out(ErrRecord(NULL), r.msg)

(* -------------------------------- state -------------------------------- *)

VARIABLES
    fs,         \* the file system: path text -> what the entry holds
    heap,       \* address -> the bytes of the live CString there, <<>> if none
    reclaimed,  \* free_error_message has reclaimed an allocation
    ub,         \* free_error_message was given a pointer that is not live
    pc,         \* each thread's position in its call
    api,        \* which entry point the thread called: "ffi" or "native"
    arg,        \* validate_webp_ffi's `path` argument
    path,       \* validate_webp's `path` argument (path_str in the adapter)
    file,       \* the result of File::open
    probe,      \* the result of WebPDecoder::new
    res,        \* validate_webp's return value
    rec,        \* validate_webp_ffi's return value
    ops         \* what the call did so far: dereferences, opens, probes

vars == <<fs, heap, reclaimed, ub, pc, api, arg, path, file, probe, res,
          rec, ops>>

NoOps == [derefs |-> 0, opens |-> 0, probes |-> 0]

(* ---------------------------- inputs of a call ------------------------- *)

\* NUL-terminated buffers of at most MaxPathLen bytes before the terminator
AllBufs == {s \o <<0>> : s \in SeqsUpTo(PathBytes, MaxPathLen)}
AllPtrs == {NullArg} \cup {BufArg(b) : b \in AllBufs}
\* &str values: valid UTF-8, an interior NUL allowed
AllPaths == {s \in SeqsUpTo(PathBytes, MaxPathLen) : IsUtf8(s)}
\* names a directory entry can have
FsPaths == {s \in AllPaths : s # <<>> /\ 0 \notin Range(s)}

EmptyFs == [q \in {} |-> NoContent]
\* file systems holding at most one file
FileSystems ==
    {EmptyFs} \cup {[q \in {n} |-> c] : n \in FsPaths, c \in FileContents}

StaticImage ==
    [kind |-> "webp", err |-> NoErr,
     decoder |-> [dimensions |-> <<2, 1>>, has_alpha |-> TRUE,
                  is_animated |-> FALSE, num_frames |-> 0]]
AnimatedImage ==
    [kind |-> "webp", err |-> NoErr,
     decoder |-> [dimensions |-> <<1, 2>>, has_alpha |-> FALSE,
                  is_animated |-> TRUE, num_frames |-> 2]]
FakeImage ==
    [kind |-> "bad", decoder |-> NoDecoder,
     err |-> [tag |-> "ChunkHeaderInvalid", payload |-> <<0, 0, 0, 0>>]]

\* the inputs of the concurrent specification: two files, "a" and U+00E9
ConcFileSystems ==
    {[q \in {<<97>>, <<195, 169>>} |->
          IF q = <<97>> THEN StaticImage ELSE FakeImage],
     [q \in {<<97>>, <<195, 169>>} |->
          IF q = <<97>> THEN FakeImage ELSE AnimatedImage]}
ConcPtrs ==
    {NullArg, BufArg(<<195, 0>>), BufArg(<<97, 0>>), BufArg(<<195, 169, 0>>)}
ConcPaths == {<<97>>, <<97, 97>>}

(* ------------------------------- actions ------------------------------- *)

\* the caller calls validate_webp_ffi(a)
CallFfi(t, ptrs) ==
    /\ pc[t] = "idle"
    /\ \E a \in ptrs : arg' = [arg EXCEPT ![t] = a]
    /\ pc' = [pc EXCEPT ![t] = "entry"]
    /\ api' = [api EXCEPT ![t] = "ffi"]
    /\ ops' = [ops EXCEPT ![t] = NoOps]
    /\ UNCHANGED <<fs, heap, reclaimed, ub, path, file, probe, res, rec>>

\* the caller calls validate_webp(p)
CallNative(t, paths) ==
    /\ pc[t] = "idle"
    /\ \E p \in paths : path' = [path EXCEPT ![t] = p]
    /\ pc' = [pc EXCEPT ![t] = "open"]
    /\ api' = [api EXCEPT ![t] = "native"]
    /\ ops' = [ops EXCEPT ![t] = NoOps]
    /\ UNCHANGED <<fs, heap, reclaimed, ub, arg, file, probe, res, rec>>

\* CString::new(text).unwrap().into_raw() and the return of record[pointer]:
\* the unwrap panics on Err; otherwise the message gets a fresh address
ReturnMessage(t, text, record) ==
    LET c == CStringNew(text) IN
    IF ~c.ok
    THEN /\ pc' = [pc EXCEPT ![t] = "panicked"]
         /\ UNCHANGED <<heap, rec>>
    ELSE \E p \in FreshAddrs(heap) :
            /\ heap' = [heap EXCEPT ![p] = c.buf]
            /\ rec' = [rec EXCEPT ![t] = record[p]]
            /\ pc' = [pc EXCEPT ![t] = "ret"]

\* validate_webp_ffi up to its call of validate_webp: the null check,
\* CStr::from_ptr and to_str
FfiEntry(t) ==
    /\ pc[t] = "entry"
    /\ IF is_null(arg[t])
       THEN /\ ReturnMessage(t, PathIsNullText,
                             [p \in Addr |-> NullPathRecord(p)])
            /\ UNCHANGED <<path, ops>>
       ELSE LET path_str == ToStr(CStrFromPtr(arg[t].buf)) IN
            /\ ops' = [ops EXCEPT ![t].derefs = @ + 1]
            /\ IF ~path_str.ok
               THEN /\ ReturnMessage(t, InvalidUtf8Text,
                                     [p \in Addr |-> InvalidUtf8Record(p)])
                    /\ UNCHANGED path
               ELSE /\ path' = [path EXCEPT ![t] = path_str.s]
                    /\ pc' = [pc EXCEPT ![t] = "open"]
                    /\ UNCHANGED <<heap, rec>>
    /\ UNCHANGED <<fs, reclaimed, ub, api, arg, file, probe, res>>

\* where validate_webp returns to
Returned(t) == IF api[t] = "ffi" THEN "map" ELSE "ret"

\* File::open(path).map_err(..)?
Open(t) ==
    /\ pc[t] = "open"
    /\ LET f == FileOpen(path[t], fs) IN
       /\ file' = [file EXCEPT ![t] = f]
       /\ IF f.ok
          THEN /\ pc' = [pc EXCEPT ![t] = "probe"]
               /\ UNCHANGED res
          ELSE /\ res' = [res EXCEPT ![t] = Err(OpenErrMsg(f.desc))]
               /\ pc' = [pc EXCEPT ![t] = Returned(t)]
    /\ ops' = [ops EXCEPT ![t].opens = @ + 1]
    /\ UNCHANGED <<fs, heap, reclaimed, ub, api, arg, path, probe, rec>>

\* WebPDecoder::new(BufReader::new(file))
Probe(t) ==
    /\ pc[t] = "probe"
    /\ probe' = [probe EXCEPT ![t] = WebPDecoderNew(file[t].content)]
    /\ ops' = [ops EXCEPT ![t].probes = @ + 1]
    /\ pc' = [pc EXCEPT ![t] = "extract"]
    /\ UNCHANGED <<fs, heap, reclaimed, ub, api, arg, path, file, res, rec>>

\* the two arms of validate_webp's match, and its return
Extract(t) ==
    /\ pc[t] = "extract"
    /\ res' = [res EXCEPT ![t] =
                  IF probe[t].ok THEN Ok(new_valid(probe[t].decoder))
                  ELSE Err(FormatErrMsg(probe[t].err))]
    /\ pc' = [pc EXCEPT ![t] = Returned(t)]
    /\ UNCHANGED <<fs, heap, reclaimed, ub, api, arg, path, file, probe,
                   rec, ops>>

\* the two arms of validate_webp_ffi's match, and its return
MapResult(t) ==
    /\ pc[t] = "map"
    /\ IF res[t].ok
       THEN /\ rec' = [rec EXCEPT ![t] = OkRecord(res[t].info)]
            /\ pc' = [pc EXCEPT ![t] = "ret"]
            /\ UNCHANGED heap
       ELSE ReturnMessage(t, res[t].msg, [p \in Addr |-> ErrRecord(p)])
    /\ UNCHANGED <<fs, reclaimed, ub, api, arg, path, file, probe, res, ops>>

\* the foreign caller passes the record's error_message to
\* free_error_message, once, and drops the record
Release(t) ==
    /\ pc[t] = "ret" /\ api[t] = "ffi"
    /\ LET f == free_error_message(heap, rec[t].error_message) IN
       /\ heap' = f.heap
       /\ ub' = (ub \/ f.ub)
       /\ reclaimed' = (reclaimed \/ f.heap # heap)
    /\ pc' = [pc EXCEPT ![t] = "idle"]
    /\ arg' = [arg EXCEPT ![t] = NullArg]
    /\ path' = [path EXCEPT ![t] = <<>>]
    /\ file' = [file EXCEPT ![t] = NoFile]
    /\ probe' = [probe EXCEPT ![t] = NoProbe]
    /\ res' = [res EXCEPT ![t] = NoResult]
    /\ rec' = [rec EXCEPT ![t] = NoRecord]
    /\ ops' = [ops EXCEPT ![t] = NoOps]
    /\ UNCHANGED <<fs, api>>

\* the native caller drops the Result
Finish(t) ==
    /\ pc[t] = "ret" /\ api[t] = "native"
    /\ pc' = [pc EXCEPT ![t] = "idle"]
    /\ path' = [path EXCEPT ![t] = <<>>]
    /\ file' = [file EXCEPT ![t] = NoFile]
    /\ probe' = [probe EXCEPT ![t] = NoProbe]
    /\ res' = [res EXCEPT ![t] = NoResult]
    /\ ops' = [ops EXCEPT ![t] = NoOps]
    /\ UNCHANGED <<fs, heap, reclaimed, ub, api, arg, rec>>

\* a step of a call in flight
Step(t) ==
    \/ FfiEntry(t)
    \/ Open(t)
    \/ Probe(t)
    \/ Extract(t)
    \/ MapResult(t)

(* ---------------------------- specifications --------------------------- *)

InitThreads ==
    /\ heap = [a \in Addr |-> <<>>]
    /\ reclaimed = FALSE
    /\ ub = FALSE
    /\ pc = [t \in Threads |-> "idle"]
    /\ api = [t \in Threads |-> "ffi"]
    /\ arg = [t \in Threads |-> NullArg]
    /\ path = [t \in Threads |-> <<>>]
    /\ file = [t \in Threads |-> NoFile]
    /\ probe = [t \in Threads |-> NoProbe]
    /\ res = [t \in Threads |-> NoResult]
    /\ rec = [t \in Threads |-> NoRecord]
    /\ ops = [t \in Threads |-> NoOps]

\* every thread calls concurrently, on a file system of two files
Init == fs \in ConcFileSystems /\ InitThreads

Next ==
    \E t \in Threads :
        \/ CallFfi(t, ConcPtrs)
        \/ CallNative(t, ConcPaths)
        \/ Step(t)
        \/ Release(t)
        \/ Finish(t)

Spec == Init /\ [][Next]_vars

\* one thread calls, with every path argument and every file within the bounds
InitSeq == fs \in FileSystems /\ InitThreads

NextSeq ==
    \/ CallFfi(1, AllPtrs)
    \/ CallNative(1, AllPaths)
    \/ Step(1)
    \/ Release(1)
    \/ Finish(1)

SpecSeq == InitSeq /\ [][NextSeq]_vars

(* ------------------------------ properties ----------------------------- *)

FfiRet(t) == pc[t] = "ret" /\ api[t] = "ffi"

\* the text the caller decodes from the record's error_message pointer
MessageOf(t) ==
    IF rec[t].error_message = NULL THEN <<>>
    ELSE CStrFromPtr(heap[rec[t].error_message])

ZeroMeta(r) ==
    /\ r.width = 0 /\ r.height = 0 /\ r.num_frames = 0
    /\ r.has_alpha = FALSE /\ r.is_animated = FALSE

\* the argument is a non-null pointer to valid UTF-8 text
ValidPathArg(a) == ~a.null /\ IsUtf8(CStrFromPtr(a.buf))

\* validate_webp has been called and has returned
ValidateDone(t) ==
    /\ pc[t] \in {"map", "ret"}
    /\ api[t] = "native" \/ ValidPathArg(arg[t])

\* the file at p cannot be opened: no such entry, no permission, a bad name
CannotOpen(p) ==
    0 \in Range(p) \/ p \notin DOMAIN fs \/ fs[p].kind = "denied"

\* C1: every record validate_webp_ffi returns has is_valid = TRUE exactly
\* when its error_message is the null pointer
C1_ValidIffNoMessage ==
    \A t \in Threads :
        FfiRet(t) => (rec[t].is_valid <=> rec[t].error_message = NULL)

C1_Witness ==
    \E t, u \in Threads :
        /\ FfiRet(t) /\ rec[t].is_valid
        /\ FfiRet(u) /\ ~rec[u].is_valid /\ ~arg[u].null

\* C2: a null path returns at once an invalid record with zero metadata
\* whose message is exactly "path is null"; nothing is dereferenced, opened
\* or probed
C2_NullPath ==
    \A t \in Threads :
        (api[t] = "ffi" /\ pc[t] # "idle" /\ arg[t].null) =>
            /\ pc[t] \in {"entry", "ret"}
            /\ ops[t] = NoOps /\ file[t] = NoFile /\ probe[t] = NoProbe
            /\ res[t] = NoResult
            /\ pc[t] = "ret" =>
                  /\ ~rec[t].is_valid /\ ZeroMeta(rec[t])
                  /\ rec[t].error_message # NULL
                  /\ MessageOf(t) = PathIsNullText

C2_Witness == \E t \in Threads : FfiRet(t) /\ arg[t].null

\* C3: a non-null path that is not valid UTF-8 returns an invalid record with
\* zero metadata whose message is exactly "invalid utf-8 in path"; the
\* validator is not reached: nothing is opened or probed
C3_InvalidUtf8 ==
    \A t \in Threads :
        (api[t] = "ffi" /\ pc[t] # "idle" /\ ~arg[t].null
             /\ ~IsUtf8(CStrFromPtr(arg[t].buf))) =>
            /\ pc[t] \in {"entry", "ret"}
            /\ ops[t].opens = 0 /\ ops[t].probes = 0
            /\ file[t] = NoFile /\ probe[t] = NoProbe /\ res[t] = NoResult
            /\ pc[t] = "ret" =>
                  /\ ~rec[t].is_valid /\ ZeroMeta(rec[t])
                  /\ rec[t].error_message # NULL
                  /\ MessageOf(t) = InvalidUtf8Text

C3_Witness ==
    \E t \in Threads :
        FfiRet(t) /\ ~arg[t].null /\ ~IsUtf8(CStrFromPtr(arg[t].buf))

\* C4: when the file cannot be opened, validate_webp returns Err of
\* "failed to open file: " followed by the I/O error's description, after
\* exactly one open and no probe
C4_OpenFailure ==
    \A t \in Threads :
        (pc[t] \notin {"idle", "entry"} /\ CannotOpen(path[t])) =>
            /\ pc[t] \notin {"probe", "extract"}
            /\ ops[t].opens <= 1 /\ ops[t].probes = 0
            /\ probe[t] = NoProbe
            /\ ValidateDone(t) =>
                  /\ ~res[t].ok
                  /\ ops[t].opens = 1
                  /\ file[t].desc \in {NotFoundText, DeniedText, NulInPathText}
                  /\ res[t].msg = OpenPrefix \o file[t].desc
                  /\ IsPrefix(OpenPrefix, res[t].msg)

C4_Witness ==
    \E t \in Threads :
        /\ ValidateDone(t) /\ api[t] = "native"
        /\ path[t] \in DOMAIN fs /\ fs[path[t]].kind = "denied"

\* C5: when the file opens and the probe rejects its bytes, validate_webp
\* returns Err of "webp format validation failed: " followed by text that
\* contains the error's tag name; no error with another tag yields the same
\* message, and the message does not start with "failed to open file"
C5_FormatFailure ==
    \A t \in Threads :
        (ValidateDone(t) /\ ~CannotOpen(path[t])
             /\ fs[path[t]].kind = "bad") =>
            LET e == fs[path[t]].err IN
            /\ ~res[t].ok
            /\ IsPrefix(FormatPrefix, res[t].msg)
            /\ Contains(SubSeq(res[t].msg, Len(FormatPrefix) + 1,
                               Len(res[t].msg)), TagName(e.tag))
            /\ ~IsPrefix(OpenPrefix, res[t].msg)
            /\ \A e2 \in DecodingErrors :
                  e2.tag # e.tag => FormatErrMsg(e2) # res[t].msg

C5_Witness ==
    \E t \in Threads :
        /\ ValidateDone(t) /\ ~CannotOpen(path[t])
        /\ fs[path[t]].kind = "bad"
        /\ fs[path[t]].err.tag = "ChunkHeaderInvalid"

\* the message pointers the callers hold and have not yet released
Outstanding ==
    {rec[t].error_message : t \in {u \in Threads : FfiRet(u)}} \ {NULL}

Live == {a \in Addr : heap[a] # <<>>}

\* C6: with every non-null error_message released exactly once, the live
\* allocations are exactly the pointers not yet released (none leaks, none
\* is reclaimed twice), two outstanding records never share a pointer, a
\* success record holds none, and releasing null changes nothing
C6_NoLeakNoDoubleFree ==
    /\ ~ub
    /\ Live = Outstanding
    /\ \A t, u \in Threads :
          (t # u /\ FfiRet(t) /\ FfiRet(u)
               /\ rec[t].error_message # NULL) =>
              rec[t].error_message # rec[u].error_message
    /\ \A t \in Threads :
          (FfiRet(t) /\ rec[t].is_valid) => rec[t].error_message = NULL
    /\ (\A t \in Threads : pc[t] = "idle") => Live = {}

C6_Witness ==
    /\ \A t \in Threads : pc[t] = "idle"
    /\ reclaimed
    /\ Live = {}

\* C7: validate_webp_ffi never panics: a call in flight can always take its
\* next step, and CString::new(..).unwrap() never fails on a message
C7_NoPanic ==
    \A t \in Threads :
        /\ pc[t] # "panicked"
        /\ pc[t] \in {"entry", "open", "probe", "extract", "map"} =>
              ENABLED Step(t)

C7_Witness ==
    \E t \in Threads :
        /\ FfiRet(t) /\ ~rec[t].is_valid
        /\ probe[t].err.tag = "ChunkHeaderInvalid"
        /\ 0 \in Range(probe[t].err.payload)

\* C8: under every interleaving a call returns what it returns when run
\* alone: validate_webp the Result of the sequential function, and
\* validate_webp_ffi the sequential record, its message read when the other
\* threads have moved on
C8_Independent ==
    \A t \in Threads :
        pc[t] = "ret" =>
            IF api[t] = "native"
            THEN res[t] = validate_webp(path[t], fs)
            ELSE LET e == validate_webp_ffi(arg[t], fs) IN
                 /\ ~e.panic
                 /\ [rec[t] EXCEPT !.error_message = NULL] = e.rec
                 /\ rec[t].error_message = NULL <=> e.rec.is_valid
                 /\ MessageOf(t) = e.text

C8_Witness ==
    \E t, u \in Threads :
        /\ t # u /\ FfiRet(t) /\ FfiRet(u)
        /\ rec[t].error_message # NULL /\ rec[u].error_message # NULL
        /\ MessageOf(t) # MessageOf(u)

\* C9: when the probe succeeds, validate_webp returns Ok with exactly the
\* width, height, alpha flag, animation flag and frame count the decoder
\* handle reports
C9_Metadata ==
    \A t \in Threads :
        (ValidateDone(t) /\ ~CannotOpen(path[t])
             /\ fs[path[t]].kind = "webp") =>
            LET d == fs[path[t]].decoder IN
            /\ res[t].ok
            /\ res[t].msg = <<>>
            /\ res[t].info.width = d.dimensions[1]
            /\ res[t].info.height = d.dimensions[2]
            /\ res[t].info.has_alpha = d.has_alpha
            /\ res[t].info.is_animated = d.is_animated
            /\ res[t].info.num_frames = d.num_frames

C9_Witness ==
    \E t \in Threads :
        /\ ValidateDone(t) /\ api[t] = "native" /\ res[t].ok
        /\ res[t].info.width # res[t].info.height
        /\ res[t].info.is_animated /\ res[t].info.num_frames = MaxFrames

\* C10: for a non-null, valid UTF-8 path the record is the image of
\* validate_webp's outcome: Ok gives is_valid with the metadata copied and no
\* message, Err(m) gives an invalid record with zero metadata and a message
\* that decodes to m; no invalid record carries metadata
C10_RecordOfOutcome ==
    \A t \in Threads :
        FfiRet(t) =>
            /\ ~rec[t].is_valid => ZeroMeta(rec[t])
            /\ ValidPathArg(arg[t]) =>
                  LET r == validate_webp(CStrFromPtr(arg[t].buf), fs) IN
                  IF r.ok
                  THEN /\ rec[t].is_valid
                       /\ rec[t].width = r.info.width
                       /\ rec[t].height = r.info.height
                       /\ rec[t].has_alpha = r.info.has_alpha
                       /\ rec[t].is_animated = r.info.is_animated
                       /\ rec[t].num_frames = r.info.num_frames
                       /\ rec[t].error_message = NULL
                  ELSE /\ ~rec[t].is_valid
                       /\ ZeroMeta(rec[t])
                       /\ rec[t].error_message # NULL
                       /\ MessageOf(t) = r.msg

C10_Witness ==
    \E t \in Threads :
        /\ FfiRet(t) /\ ValidPathArg(arg[t])
        /\ rec[t].is_valid /\ rec[t].num_frames > 0 /\ rec[t].has_alpha

=============================================================================
